---- MODULE Spec2Model ----
(***************************************************************************)
(* A model of scapy/supersocket.py: the SuperSocket handle (send, recv,    *)
(* close) and its transports L3RawSocket, SimpleSocket, StreamSocket,      *)
(* SSLStreamSocket and L2ListenTcpdump.                                    *)
(*                                                                         *)
(* Bytes are small naturals, byte strings are sequences.  A packet is the  *)
(* sequence of its layers, outermost first: the underlayer of layer i is   *)
(* layer i-1, its payload is layer i+1, and NoPayload is the end of the    *)
(* sequence (the empty sequence is a bare NoPayload).                      *)
(***************************************************************************)
EXTENDS Integers, Sequences, FiniteSets, TLC

\* ------------------------------------------------------------------ bounds
\* Most frames a peer writes on one stream.
MaxFrames == 2
\* Most records waiting in the capture socket of an L3RawSocket.
MaxQueue == 2
\* Most send() calls followed on one handle.
MaxSend == 1
\* A small value of the argument x of recv(x).
SmallX == 2
\* Most recv() calls followed on a StreamSocket, and most packets taken from
\* an SSLStreamSocket.
MaxCalls == 3

\* ------------------------------------------------------- program constants
\* scapy.data.MTU, the default of recv's argument x.
MTU == 32767
\* The default of SSLStreamSocket.recv's x: the longest TLS record.
MaxTLS == 65535
\* socket.PACKET_OUTGOING and socket.PACKET_HOST, the values of sa_ll[2].
PACKET_OUTGOING == 4
PACKET_HOST == 0

\* --------------------------------------------------------------- sequences
Min(a, b) == IF a <= b THEN a ELSE b

Take(s, n) == SubSeq(s, 1, Min(n, Len(s)))

\* The slice s[n+1:]: one element too many removed.
DropOneMore(s, n) == SubSeq(s, n + 2, Len(s))

Drop(s, n) == SubSeq(s, n + 1, Len(s))

RECURSIVE Flatten(_)
Flatten(ss) == IF ss = <<>> THEN <<>> ELSE Head(ss) \o Flatten(Tail(ss))

\* ---------------------------------------------------------------- packets
Layer(n, b) == [name |-> n, load |-> b]

\* The bytes a packet stands for: its layers' bytes, in order.
RECURSIVE PktBytes(_)
PktBytes(p) == IF p = <<>> THEN <<>> ELSE Head(p).load \o PktBytes(Tail(p))

PktLen(p) == Len(PktBytes(p))

\* A decoder's answer: a packet, or a failure.
Ok(p) == [ok |-> TRUE, pkt |-> p]
Fail == [ok |-> FALSE, pkt |-> <<>>]

\* conf.raw_layer: every byte string is one opaque layer.
DecRaw(b) == Ok(<<Layer("Raw", b)>>)

\* conf.padding_layer used as a decoder: the whole result is padding.
DecPadding(b) == Ok(<<Layer("Padding", b)>>)

\* A record decoder: the first byte n >= 1 of a record is its length, the
\* bytes after the record are padding.  It fails on a length byte 0 (a
\* malformed record) and on fewer than n bytes (underflow).
DecFramed(b) ==
    IF b = <<>> \/ b[1] = 0 \/ Len(b) < b[1] THEN Fail
    ELSE IF Len(b) = b[1] THEN Ok(<<Layer("Frame", b)>>)
    ELSE Ok(<<Layer("Frame", Take(b, b[1])), Layer("Padding", Drop(b, b[1]))>>)

\* The length of a link-layer header.
HdrLen == 2

\* A link-layer decoder named n: a header of HdrLen bytes, then the payload
\* as an inner layer.  It fails on fewer bytes than its header.
DecLink(n, b) ==
    IF Len(b) < HdrLen THEN Fail
    ELSE IF Len(b) = HdrLen THEN Ok(<<Layer(n, b)>>)
    ELSE Ok(<<Layer(n, Take(b, HdrLen)), Layer("Raw", Drop(b, HdrLen))>>)

\* A network-layer decoder: one layer; it fails on a first byte 0.
DecNet(n, b) ==
    IF b = <<>> \/ b[1] = 0 THEN Fail ELSE Ok(<<Layer(n, b)>>)

\* cls(pkt) for the decoder class named c.
Decode(c, b) ==
    CASE c = "Raw" -> DecRaw(b)
      [] c = "Padding" -> DecPadding(b)
      [] c = "Frame" -> DecFramed(b)
      [] c = "IP" -> DecNet(c, b)
      [] OTHER -> DecLink(c, b)

\* conf.l2types and conf.l3types, keyed by sa_ll[3] and sa_ll[1], and
\* conf.default_l2.
L2Types == [h \in {1} |-> "Ether"]
L3Types == [p \in {8} |-> "IP"]
DefaultL2 == "Dot3"

\* ------------------------------------------------- trailing padding
\* pkt.getlayer(conf.padding_layer): the place of the first padding layer,
\* 0 for None.
PadIndex(p) ==
    IF \E i \in 1..Len(p) : p[i].name = "Padding"
    THEN CHOOSE i \in 1..Len(p) :
            /\ p[i].name = "Padding"
            /\ \A j \in 1..(i - 1) : p[j].name # "Padding"
    ELSE 0

\* Detach with the deletion left out: the padding stays on the packet.
DetachNone(p) == p

\* if pad is not None and pad.underlayer is not None:
\*     del(pad.underlayer.payload)
Detach(p) == IF PadIndex(p) > 1 THEN Take(p, PadIndex(p) - 1) ELSE p

\* PadLen with the loop left out: nothing is taken off x.
PadLenNone(p) == 0

\* PadLen with the loop under the test "pad.underlayer is not None".
PadLenParented(p) ==
    IF PadIndex(p) <= 1 THEN 0 ELSE PktLen(Drop(p, PadIndex(p) - 1))

\* while pad is not None and not isinstance(pad, NoPayload):
\*     x -= len(pad.load); pad = pad.payload
\* The bytes the loop takes off x: the loads from the padding layer on.
PadLen(p) == IF PadIndex(p) = 0 THEN 0 ELSE PktLen(Drop(p, PadIndex(p) - 1))

\* Consumed with x left as it was: everything decoded is taken.
ConsumedAll(n, p) == n

\* The value of x after the loop, x being len(bytes decoded) before it.
Consumed(n, p) == n - PadLen(p)

\* ------------------------------------------------------------------ state
\* An attribute that was never assigned, and the value None.
Unset == -1
None == 0
\* The two channel objects a handle may hold.
Chans == {1, 2}

Classes == {"SimpleSocket", "StreamSocket", "SSLStreamSocket",
            "L3RawSocket", "L2ListenTcpdump"}
StreamClasses == {"SimpleSocket", "StreamSocket", "SSLStreamSocket"}

VARIABLES
    cls,        \* the class of the handle
    basecls,    \* self.basecls of a StreamSocket
    debug,      \* conf.debug_dissector
    closed,     \* self.closed
    ins,        \* self.ins: a channel, None or Unset
    outs,       \* self.outs
    live,       \* live[c]: channel c is open (c.fileno() != -1)
    closeLog,   \* the channels closed so far, in order
    sent,       \* the units the peer writes on the stream, in order
    wire,       \* bytes of the stream not yet arrived
    avail,      \* bytes arrived and not yet read
    eof,        \* the peer has shut the stream down
    buf,        \* self._buf of an SSLStreamSocket
    cap,        \* the records waiting in the capture socket
    nout,       \* datagrams written to self.outs so far
    got,        \* the byte strings of the packets recv has returned
    nrecv,      \* recv calls made so far on a stream transport, capped
    taken,      \* the prefixes removed from self._buf so far, joined
    short,      \* some recv so far saw less than the whole next frame
    argv,       \* the arguments tcpdump was started with
    last        \* what the last call did

vars == <<cls, basecls, debug, closed, ins, outs, live, closeLog, sent, wire,
          avail, eof, buf, cap, nout, got, nrecv, taken, short, argv, last>>

\* c is a channel object that is open: c.fileno() != -1.
Live(c) == c \in Chans /\ live[c]

\* What construction sets and no call changes.
fixed == <<cls, basecls, debug, ins, outs, sent, argv>>
\* What only recv on a stream transport changes.
history == <<got, nrecv, taken, short>>

\* ---------------------------------------------------------- the peer's data
\* The well-formed frames a peer writes: the first byte is the length.
Frames == {<<1>>, <<3, 0, 3>>}

\* What a peer may write: a frame, or a malformed record.
Units == Frames \cup {<<0>>}

Streams == UNION {[1..n -> Units] : n \in 0..MaxFrames}

WellFormed == \A i \in 1..Len(sent) : sent[i] \in Frames

\* A record of the capture socket: the bytes and sa_ll's protocol, packet
\* type and hardware type.
CapRecords == [pkt : {<<0>>, <<1, 2, 3>>}, proto : {8, 7},
               pkttype : {PACKET_HOST, PACKET_OUTGOING}, hatype : {1, 9}]

\* What a call leaves behind for its caller.
Outcome(op, err, isNone, ret) ==
    [op |-> op, err |-> err, none |-> isNone, ret |-> ret,
     peeked |-> 0, consumed |-> 0, decodes |-> 0, reads |-> 0,
     warnings |-> 0, logged |-> 0, stamped |-> FALSE, wrote |-> FALSE,
     timed |-> FALSE, degraded |-> FALSE, decoder |-> "", lvl |-> 0,
     raw |-> <<>>, interrupted |-> FALSE, args |-> <<>>]

\* ------------------------------------------------------------ construction
\* SimpleSocket.__init__ (and StreamSocket's, SSLStreamSocket's): one socket
\* is both channels; basecls defaults to conf.raw_layer; _buf is empty.
InitStream ==
    /\ cls \in StreamClasses
    /\ basecls \in (IF cls = "SimpleSocket" THEN {"Raw"}
                    ELSE {"Raw", "Padding", "Frame"})
    /\ debug = FALSE
    /\ ins = 1 /\ outs = 1
    /\ live = [c \in Chans |-> c = 1]
    /\ sent \in Streams
    /\ wire = Flatten(sent)

\* L3RawSocket.__init__: outs is created first, then ins; when creating ins
\* raises, the attribute ins is never assigned.
InitL3 ==
    /\ cls = "L3RawSocket"
    /\ basecls = "Raw"
    /\ debug \in BOOLEAN
    /\ outs = 2
    /\ \/ ins = 1 /\ live = [c \in Chans |-> TRUE]
       \/ ins = Unset /\ live = [c \in Chans |-> c = 2]
    /\ sent = <<>>
    /\ wire = <<>>

\* L2ListenTcpdump.__init__: outs is None; ins is the reader of tcpdump's
\* output, never assigned when tcpdump() raises.
InitTcpdump ==
    /\ cls = "L2ListenTcpdump"
    /\ basecls = "Raw"
    /\ debug = FALSE
    /\ outs = None
    /\ \/ ins = 1 /\ live = [c \in Chans |-> c = 1]
       \/ ins = Unset /\ live = [c \in Chans |-> FALSE]
    /\ sent = <<>>
    /\ wire = <<>>

\* None, where the value is otherwise a string (iface = None, filter = None).
Absent == "<None>"

\* if filter: / if conf.except_filter: the truth of a string or None.
Truthy(v) == v \notin {Absent, ""}

\* The calls of L2ListenTcpdump.__init__ followed, with conf.except_filter.
Calls ==
    [iface : {Absent, "eth0", "lo"}, promisc : BOOLEAN,
     filter : {Absent, "", "F"}, nofilter : BOOLEAN,
     except_filter : {"", "E"}]

\* L2ListenTcpdump(): every argument left at its default.
DefaultCall ==
    [iface |-> Absent, promisc |-> FALSE, filter |-> Absent,
     nofilter |-> FALSE, except_filter |-> ""]

\* TcpdumpFilter with nofilter ignored.
TcpdumpFilterAlways(filter, nofilter, ef) ==
    IF Truthy(ef)
    THEN IF Truthy(filter) THEN <<"(", filter, ") and not (", ef, ")">>
         ELSE <<"not (", ef, ")">>
    ELSE <<filter>>

\* Lines 191-196: filter after conf.except_filter was worked in.  A string is
\* the sequence of the pieces it is made of; <<Absent>> is None.
TcpdumpFilter(filter, nofilter, ef) ==
    IF ~nofilter /\ Truthy(ef)
    THEN IF Truthy(filter) THEN <<"(", filter, ") and not (", ef, ")">>
         ELSE <<"not (", ef, ")">>
    ELSE <<filter>>

\* Lines 186-198: the argument list handed to tcpdump().
TcpdumpArgs(c) ==
    LET f == TcpdumpFilter(c.filter, c.nofilter, c.except_filter)
    IN  <<<<"-w">>, <<"-">>, <<"-s">>, <<"65535">>>>
           \o (IF c.iface # Absent THEN <<<<"-i">>, <<c.iface>>>> ELSE <<>>)
           \o (IF ~c.promisc THEN <<<<"-p">>>> ELSE <<>>)
           \o (IF f # <<Absent>> THEN <<f>> ELSE <<>>)

\* What tcpdump filters has no part in what recv and close do with the
\* records it delivers: a handle is followed from the default call.
Init ==
    /\ InitStream \/ InitL3 \/ InitTcpdump
    /\ argv = IF cls = "L2ListenTcpdump" THEN TcpdumpArgs(DefaultCall) ELSE <<>>
    /\ closed = 0
    /\ closeLog = <<>>
    /\ avail = <<>>
    /\ eof = FALSE
    /\ buf = <<>>
    /\ cap = <<>>
    /\ nout = 0
    /\ got = <<>>
    /\ nrecv = 0
    /\ taken = <<>>
    /\ short = FALSE
    /\ last = Outcome("init", "none", TRUE, <<>>)

\* L2ListenTcpdump.__init__ itself, from the class (closed = 0, no ins, no
\* outs) to the handle; up: tcpdump() started and returned its output.
InitNew ==
    /\ cls = "L2ListenTcpdump"
    /\ basecls = "Raw"
    /\ debug = FALSE
    /\ ins = Unset /\ outs = Unset
    /\ live = [c \in Chans |-> FALSE]
    /\ sent = <<>> /\ wire = <<>> /\ avail = <<>> /\ eof = FALSE
    /\ closed = 0 /\ closeLog = <<>>
    /\ buf = <<>> /\ cap = <<>> /\ nout = 0
    /\ got = <<>> /\ nrecv = 0 /\ taken = <<>> /\ short = FALSE
    /\ argv = <<>>
    /\ last = Outcome("new", "none", TRUE, <<>>)

TcpdumpInit(c, up) ==
    /\ cls = "L2ListenTcpdump"
    /\ last.op = "new"
    /\ outs' = None
    /\ argv' = TcpdumpArgs(c)
    /\ ins' = IF up THEN 1 ELSE Unset
    /\ live' = [ch \in Chans |-> up /\ ch = 1]
    /\ last' = [Outcome("init", IF up THEN "none" ELSE "OSError", TRUE, <<>>)
                   EXCEPT !.args = <<c>>]
    /\ UNCHANGED <<cls, basecls, debug, sent, history, closed, closeLog, wire,
                   avail, eof, buf, cap, nout>>

\* ------------------------------------------------------------ environment
\* k more bytes of the stream arrive.
Deliver(k) ==
    /\ cls \in StreamClasses
    /\ k \in 1..Len(wire)
    /\ avail' = avail \o Take(wire, k)
    /\ wire' = Drop(wire, k)
    /\ UNCHANGED <<fixed, history, closed, live, closeLog, eof, buf, cap,
                   nout, last>>

\* The peer shuts the stream down after its last byte.
PeerClose ==
    /\ cls \in StreamClasses
    /\ wire = <<>>
    /\ ~eof
    /\ eof' = TRUE
    /\ UNCHANGED <<fixed, history, closed, live, closeLog, wire, avail, buf,
                   cap, nout, last>>

\* The capture socket, or tcpdump, captures one more record.
Capture(r) ==
    /\ cls \in {"L3RawSocket", "L2ListenTcpdump"}
    /\ ins # Unset
    /\ Len(cap) < MaxQueue
    /\ cap' = Append(cap, r)
    /\ UNCHANGED <<fixed, history, closed, live, closeLog, wire, avail, eof,
                   buf, nout, last>>

\* The owner of the socket a SimpleSocket wraps closes it itself.
SockClose ==
    /\ cls = "SimpleSocket"
    /\ live[1]
    /\ live' = [live EXCEPT ![1] = FALSE]
    /\ closeLog' = Append(closeLog, 1)
    /\ UNCHANGED <<fixed, history, closed, wire, avail, eof, buf, cap, nout,
                   last>>

\* ------------------------------------------------------- SuperSocket.close
\* CloseSeq with ins closed before outs.
CloseSeqInsFirst(i, o, lv) ==
    (IF i # None /\ lv[i] THEN <<i>> ELSE <<>>)
        \o (IF i # o /\ o # None /\ lv[o] THEN <<o>> ELSE <<>>)

\* The channels close() closes, in order, once past "self.closed=1" and the
\* reading of self.ins and self.outs.
CloseSeq(i, o, lv) ==
    (IF i # o /\ o # None /\ lv[o] THEN <<o>> ELSE <<>>)
        \o (IF i # None /\ lv[i] THEN <<i>> ELSE <<>>)

Close ==
    /\ IF closed # 0
       THEN /\ last' = Outcome("close", "none", TRUE, <<>>)
            /\ UNCHANGED <<closed, live, closeLog>>
       ELSE /\ closed' = 1
            /\ IF ins = Unset \/ outs = Unset
               THEN /\ last' = Outcome("close", "AttributeError", FALSE, <<>>)
                    /\ UNCHANGED <<live, closeLog>>
               ELSE /\ live' = [c \in Chans |->
                                  live[c] /\ \A k \in 1..Len(CloseSeq(ins, outs, live)) :
                                                 CloseSeq(ins, outs, live)[k] # c]
                    /\ closeLog' = closeLog \o CloseSeq(ins, outs, live)
                    /\ last' = Outcome("close", "none", TRUE, <<>>)
    /\ UNCHANGED <<fixed, history, wire, avail, eof, buf, cap, nout>>

\* ------------------------------------------------------- StreamSocket.recv
\* The length of the frame at the head of the stream, 0 at its end.
NextNeed == IF avail \o wire = <<>> THEN 0 ELSE (avail \o wire)[1]

\* A read of no bytes taken for a read of some.
TornDownNever(data) == FALSE

\* Lines 131 and 163: if x == 0 / if len(buf) == 0, the peer closed.
TornDown(data) == Len(data) = 0

\* StreamRecvOut with the peeked bytes read off the socket before the decode.
StreamRecvOutReadFirst(x) ==
    LET pkt == Take(avail, x)
        d == Decode(basecls, pkt)
        o == [Outcome("recv", "none", FALSE, <<>>) EXCEPT
                 !.peeked = Len(pkt), !.raw = pkt, !.decoder = basecls]
    IN  IF ~Live(ins) THEN Outcome("recv", "EBADF", FALSE, <<>>)
        ELSE IF TornDown(pkt) THEN [o EXCEPT !.err = "ConnectionClosed"]
        ELSE IF ~d.ok THEN [o EXCEPT !.err = "DecodeError", !.decodes = 1,
                                     !.reads = 1, !.consumed = Len(pkt)]
        ELSE [o EXCEPT !.ret = Detach(d.pkt), !.decodes = 1, !.reads = 1,
                       !.consumed = Len(pkt)]

\* What recv(x) does; consumed is the x handed to the final self.ins.recv(x).
StreamRecvOut(x) ==
    LET pkt == Take(avail, x)
        d == Decode(basecls, pkt)
        o == [Outcome("recv", "none", FALSE, <<>>) EXCEPT
                 !.peeked = Len(pkt), !.raw = pkt, !.decoder = basecls]
    IN  IF ~Live(ins) THEN Outcome("recv", "EBADF", FALSE, <<>>)
        ELSE IF TornDown(pkt) THEN [o EXCEPT !.err = "ConnectionClosed"]
        ELSE IF ~d.ok THEN [o EXCEPT !.err = "DecodeError", !.decodes = 1]
        ELSE [o EXCEPT !.ret = Detach(d.pkt), !.decodes = 1, !.reads = 1,
                       !.consumed = Consumed(Len(pkt), d.pkt)]

StreamRecv(x) ==
    /\ cls = "StreamSocket"
    /\ nrecv < MaxCalls
    /\ ~Live(ins) \/ avail # <<>> \/ eof
    /\ LET o == StreamRecvOut(x)
       IN  /\ last' = o
           /\ avail' = Drop(avail, o.consumed)
           /\ got' = IF o.err = "none" THEN Append(got, PktBytes(o.ret)) ELSE got
           /\ short' = (short \/ (Live(ins) /\ Len(Take(avail, x)) < NextNeed))
    /\ nrecv' = nrecv + 1
    /\ UNCHANGED <<fixed, closed, live, closeLog, wire, eof, buf, cap, nout,
                   taken>>

\* ---------------------------------------------------- SSLStreamSocket.recv
\* _buf after a read with the bytes read put in its place.
SSLBufReplace(b, data) == data

\* Line 165: self._buf += buf
SSLBuf(b, data) == b \o data

\* The first decode taken to fail always, so that every call reads.
SSLFirstNever(intr) == Fail

\* Lines 153-159: pkt after the first decode of a non-empty _buf, every
\* exception of which is passed over.
SSLFirst(intr) ==
    IF buf # <<>> /\ intr # "decode1" THEN Decode(basecls, buf) ELSE Fail

\* reads = 1: self.ins.recv(x) returned; raw is _buf at line 167.
SSLRecvOut(x, intr) ==
    LET first == SSLFirst(intr)
        d1 == IF buf # <<>> THEN 1 ELSE 0
        data == Take(avail, x)
        b == IF first.ok THEN buf ELSE SSLBuf(buf, data)
        r == IF first.ok THEN 0 ELSE 1
        d == Decode(basecls, b)
        o == [Outcome("recv", "none", FALSE, <<>>) EXCEPT
                 !.decoder = basecls, !.decodes = d1,
                 !.interrupted = (buf # <<>> /\ intr = "decode1")]
        o2 == [o EXCEPT !.reads = r, !.decodes = d1 + 1, !.raw = b,
                        !.peeked = Len(b)]
    IN  IF ~first.ok /\ ~Live(ins) THEN [o EXCEPT !.err = "EBADF"]
        ELSE IF ~first.ok /\ intr = "read"
             THEN [o EXCEPT !.err = "KeyboardInterrupt", !.interrupted = TRUE]
        ELSE IF ~first.ok /\ TornDown(data)
             THEN [o EXCEPT !.err = "ConnectionClosed", !.reads = 1]
        ELSE IF intr = "decode2"
             THEN [o2 EXCEPT !.err = "KeyboardInterrupt", !.interrupted = TRUE]
        ELSE IF ~d.ok THEN [o2 EXCEPT !.err = "DecodeError"]
        ELSE [o2 EXCEPT !.ret = Detach(d.pkt),
                        !.consumed = Consumed(Len(b), d.pkt)]

SSLRecv(x, intr) ==
    /\ cls = "SSLStreamSocket"
    /\ Len(got) < MaxCalls
    /\ SSLFirst(intr).ok \/ ~Live(ins) \/ avail # <<>> \/ eof
    /\ LET o == SSLRecvOut(x, intr)
           b == IF o.reads = 1 THEN SSLBuf(buf, Take(avail, x)) ELSE buf
       IN  /\ last' = o
           /\ avail' = IF o.reads = 1 THEN Drop(avail, x) ELSE avail
           /\ buf' = Drop(b, o.consumed)
           /\ taken' = taken \o Take(b, o.consumed)
           /\ got' = IF o.err = "none" THEN Append(got, PktBytes(o.ret)) ELSE got
    /\ UNCHANGED <<fixed, closed, live, closeLog, wire, eof, cap, nout, nrecv,
                   short>>

\* --------------------------------------------------------- SuperSocket.recv
\* return conf.raw_layer(self.ins.recv(x)), as SimpleSocket inherits it.
SuperRecvOut(x) ==
    LET data == Take(avail, x)
    IN  IF ~Live(ins) THEN Outcome("recv", "EBADF", FALSE, <<>>)
        ELSE [Outcome("recv", "none", FALSE, DecRaw(data).pkt) EXCEPT
                 !.reads = 1, !.decodes = 1, !.consumed = Len(data),
                 !.raw = data, !.peeked = Len(data), !.decoder = "Raw"]

SuperRecv(x) ==
    /\ cls = "SimpleSocket"
    /\ ~Live(ins) \/ avail # <<>> \/ eof
    /\ LET o == SuperRecvOut(x)
       IN  /\ last' = o
           /\ avail' = Drop(avail, o.consumed)
           /\ got' = IF o.err = "none" /\ o.consumed > 0
                     THEN Append(got, PktBytes(o.ret)) ELSE got
    /\ UNCHANGED <<fixed, closed, live, closeLog, wire, eof, buf, cap, nout,
                   nrecv, taken, short>>

\* --------------------------------------------------------- L3RawSocket.recv
\* Outgoing with the wrong packet type compared.
OutgoingHost(r) == r.pkttype = PACKET_HOST

\* if sa_ll[2] == socket.PACKET_OUTGOING
Outgoing(r) == r.pkttype = PACKET_OUTGOING

\* Dispatch with conf.l3types looked up before conf.l2types.
DispatchL3First(r) ==
    IF r.proto \in DOMAIN L3Types
    THEN [cls |-> L3Types[r.proto], lvl |-> 3, warnings |-> 0]
    ELSE IF r.hatype \in DOMAIN L2Types
    THEN [cls |-> L2Types[r.hatype], lvl |-> 2, warnings |-> 0]
    ELSE [cls |-> DefaultL2, lvl |-> 3, warnings |-> 1]

\* Lines 79-88: the decoder class, lvl and the warnings emitted for record r.
Dispatch(r) ==
    IF r.hatype \in DOMAIN L2Types
    THEN [cls |-> L2Types[r.hatype], lvl |-> 2, warnings |-> 0]
    ELSE IF r.proto \in DOMAIN L3Types
    THEN [cls |-> L3Types[r.proto], lvl |-> 3, warnings |-> 0]
    ELSE [cls |-> DefaultL2, lvl |-> 3, warnings |-> 1]

\* consumed = 1: recvfrom took the record at the head of the capture socket.
L3RecvOut(x, intr) ==
    LET r == Head(cap)
        pkt == Take(r.pkt, x)
        c == Dispatch(r).cls
        lvl == Dispatch(r).lvl
        d == Decode(c, pkt)
        p == IF d.ok THEN d.pkt ELSE DecRaw(pkt).pkt
        o == [Outcome("recv", "none", FALSE, <<>>) EXCEPT
                 !.raw = pkt, !.peeked = Len(pkt), !.consumed = 1, !.reads = 1]
        o2 == [o EXCEPT !.decoder = c, !.lvl = lvl, !.decodes = 1,
                        !.warnings = Dispatch(r).warnings]
    IN  IF ins = Unset THEN Outcome("recv", "AttributeError", FALSE, <<>>)
        ELSE IF ~Live(ins) THEN Outcome("recv", "EBADF", FALSE, <<>>)
        ELSE IF intr = "read"
             THEN [Outcome("recv", "KeyboardInterrupt", FALSE, <<>>) EXCEPT
                      !.interrupted = TRUE]
        ELSE IF Outgoing(r) THEN [o EXCEPT !.none = TRUE]
        ELSE IF intr = "decode"
             THEN [o2 EXCEPT !.err = "KeyboardInterrupt", !.interrupted = TRUE]
        ELSE IF ~d.ok /\ debug THEN [o2 EXCEPT !.err = "DecodeError"]
        ELSE [o2 EXCEPT !.ret = IF lvl = 2 THEN Tail(p) ELSE p,
                        !.degraded = ~d.ok,
                        !.decodes = IF d.ok THEN 1 ELSE 2,
                        !.timed = TRUE]

L3Recv(x, intr) ==
    /\ cls = "L3RawSocket"
    /\ ~Live(ins) \/ cap # <<>>
    /\ LET o == L3RecvOut(x, intr)
       IN  /\ last' = o
           /\ cap' = IF o.consumed = 1 THEN Tail(cap) ELSE cap
    /\ UNCHANGED <<fixed, history, closed, live, closeLog, wire, avail, eof,
                   buf, nout>>

\* ----------------------------------------------------- L2ListenTcpdump.recv
\* return self.ins.recv(x): the reader hands over the next captured record,
\* decoded by its link-layer class, or as raw bytes when that fails.
ReaderRecv(r, x) ==
    LET pkt == Take(r.pkt, x)
        d == Decode("Ether", pkt)
    IN  IF d.ok THEN d.pkt ELSE DecRaw(pkt).pkt

TcpdumpRecvOut(x) ==
    IF ins = Unset THEN Outcome("recv", "AttributeError", FALSE, <<>>)
    ELSE IF ~Live(ins) THEN Outcome("recv", "ValueError", FALSE, <<>>)
    ELSE [Outcome("recv", "none", FALSE, ReaderRecv(Head(cap), x)) EXCEPT
             !.consumed = 1, !.reads = 1]

TcpdumpRecv(x) ==
    /\ cls = "L2ListenTcpdump"
    /\ ~Live(ins) \/ cap # <<>>
    /\ LET o == TcpdumpRecvOut(x)
       IN  /\ last' = o
           /\ cap' = IF o.consumed = 1 THEN Tail(cap) ELSE cap
    /\ UNCHANGED <<fixed, history, closed, live, closeLog, wire, avail, eof,
                   buf, nout>>

\* --------------------------------------------------------- SuperSocket.send
\* send(x) of every class but L3RawSocket.  ser: str(x) succeeds; hasTime: x
\* has the attribute sent_time; wr: the channel takes the bytes.
SuperSendOut(ser, hasTime, wr) ==
    LET o == [Outcome("send", "none", FALSE, <<>>) EXCEPT !.stamped = hasTime]
    IN  IF ~ser THEN Outcome("send", "SerializeError", FALSE, <<>>)
        ELSE IF outs = Unset \/ outs = None THEN [o EXCEPT !.err = "AttributeError"]
        ELSE IF ~Live(outs) THEN [o EXCEPT !.err = "EBADF"]
        ELSE IF ~wr THEN [o EXCEPT !.err = "socket.error"]
        ELSE [o EXCEPT !.wrote = TRUE]

SuperSend(ser, hasTime, wr) ==
    /\ cls # "L3RawSocket"
    /\ nout < MaxSend
    /\ LET o == SuperSendOut(ser, hasTime, wr)
       IN  /\ last' = o
           /\ nout' = IF o.wrote THEN nout + 1 ELSE nout
    /\ UNCHANGED <<fixed, history, closed, live, closeLog, wire, avail, eof,
                   buf, cap>>

\* --------------------------------------------------------- L3RawSocket.send
\* L3SendOut with x.sent_time set after the write instead of before it.
L3SendOutStampLast(ser, hasDst, wr) ==
    LET o == Outcome("send", "none", TRUE, <<>>)
    IN  IF ~ser THEN Outcome("send", "SerializeError", FALSE, <<>>)
        ELSE IF ~hasDst \/ outs = Unset THEN [o EXCEPT !.err = "AttributeError",
                                                       !.none = FALSE]
        ELSE IF ~Live(outs) \/ ~wr THEN [o EXCEPT !.logged = 1]
        ELSE [o EXCEPT !.wrote = TRUE, !.stamped = TRUE]

\* hasDst: x has the attribute dst.  A socket.error is logged, not raised.
L3SendOut(ser, hasDst, wr) ==
    LET o == [Outcome("send", "none", TRUE, <<>>) EXCEPT !.stamped = TRUE]
    IN  IF ~ser THEN Outcome("send", "SerializeError", FALSE, <<>>)
        ELSE IF ~hasDst \/ outs = Unset THEN [o EXCEPT !.err = "AttributeError",
                                                       !.none = FALSE]
        ELSE IF ~Live(outs) \/ ~wr THEN [o EXCEPT !.logged = 1]
        ELSE [o EXCEPT !.wrote = TRUE]

L3Send(ser, hasDst, wr) ==
    /\ cls = "L3RawSocket"
    /\ nout < MaxSend
    /\ LET o == L3SendOut(ser, hasDst, wr)
       IN  /\ last' = [o EXCEPT !.args = <<ser, hasDst, wr>>]
           /\ nout' = IF o.wrote THEN nout + 1 ELSE nout
    /\ UNCHANGED <<fixed, history, closed, live, closeLog, wire, avail, eof,
                   buf, cap>>

\* ------------------------------------------------------------ specification
\* The values of recv's argument x that are followed.
XSet == {SmallX, MTU}
XSetSSL == {SmallX, MaxTLS}

\* The receiving side of a handle: what arrives, recv and close.
Next ==
    \/ \E k \in 1..Len(wire) : Deliver(k)
    \/ PeerClose
    \/ \E r \in CapRecords : Capture(r)
    \/ SockClose
    \/ Close
    \/ \E x \in XSet : StreamRecv(x)
    \/ \E x \in XSetSSL, intr \in {"none", "decode1", "read", "decode2"} :
          SSLRecv(x, intr)
    \/ \E x \in XSet : SuperRecv(x)
    \/ \E x \in XSet, intr \in {"none", "read", "decode"} : L3Recv(x, intr)
    \/ \E x \in XSet : TcpdumpRecv(x)

Spec == Init /\ [][Next]_vars

\* The sending side of a handle: send and close.  send reads and writes
\* nothing that recv writes or reads, so the two sides are followed apart.
NextSend ==
    \/ SockClose
    \/ Close
    \/ \E ser \in BOOLEAN, hasTime \in BOOLEAN, wr \in BOOLEAN :
          SuperSend(ser, hasTime, wr)
    \/ \E ser \in BOOLEAN, hasDst \in BOOLEAN, wr \in BOOLEAN :
          L3Send(ser, hasDst, wr)

SpecSend == Init /\ [][NextSend]_vars

\* The construction of an L2ListenTcpdump, over the calls followed.
NextNew == \E c \in Calls, up \in BOOLEAN : TcpdumpInit(c, up)

SpecNew == InitNew /\ [][NextNew]_vars

\* ================================================================== claims
\* The trailing padding, in bytes, that decoder c leaves on the bytes b it
\* decodes: what follows the one record b starts with.
TrailingPad(c, b) ==
    CASE c = "Raw" -> 0
      [] c = "Padding" -> Len(b)
      [] OTHER -> Len(b) - b[1]

\* A step in which recv returned a packet on a stream transport.
Returned == got' # got

\* C1, as stated: on a StreamSocket reading N well-formed frames, however the
\* bytes arrive and whatever recv's x is, the first N recv calls return the N
\* frames in order and leave no byte unread.
C1_AnyChunks ==
    (cls = "StreamSocket" /\ basecls = "Frame" /\ WellFormed /\ closed = 0
        /\ nrecv <= Len(sent))
    => /\ got = SubSeq(sent, 1, nrecv)
       /\ nrecv = Len(sent) => avail \o wire = <<>>

\* C1, amended: the same, provided every call's peek held at least the whole
\* next frame (it may hold more: the next frames, or a part of them).
C1_WholePeeks ==
    (cls = "StreamSocket" /\ basecls = "Frame" /\ WellFormed /\ closed = 0
        /\ nrecv <= Len(sent) /\ ~short)
    => /\ got = SubSeq(sent, 1, nrecv)
       /\ nrecv = Len(sent) => avail \o wire = <<>>

\* Two frames arrived, the first call peeked both, and two calls returned them.
C1_Witness ==
    /\ cls = "StreamSocket" /\ basecls = "Frame" /\ WellFormed /\ closed = 0
    /\ ~short /\ Len(sent) = 2 /\ nrecv = 2 /\ got = sent
    /\ avail \o wire = <<>>
    /\ last.peeked = Len(sent[2])

\* C2: on an SSLStreamSocket reading well-formed frames, however the reads cut
\* them, the packets returned are the frames, whole and in order; _buf, then
\* the bytes arrived, then the bytes to come are the frames not yet returned,
\* so _buf is empty after the call returning the last frame; and the decode
\* after the read fails only on less than a whole frame.
C2_Straddle ==
    (cls = "SSLStreamSocket" /\ basecls = "Frame" /\ WellFormed)
    => /\ Len(got) <= Len(sent)
       /\ got = SubSeq(sent, 1, Len(got))
       /\ buf \o avail \o wire = Flatten(SubSeq(sent, Len(got) + 1, Len(sent)))
       /\ (last.op = "recv" /\ last.err = "DecodeError")
             => Len(last.raw) < last.raw[1]

\* The call that returned the second frame B found a part of B in _buf, could
\* not decode it, read the rest, and left _buf empty.
C2_Witness ==
    /\ cls = "SSLStreamSocket" /\ basecls = "Frame" /\ WellFormed
    /\ Len(sent) = 2 /\ got = sent /\ buf = <<>>
    /\ last.op = "recv" /\ last.err = "none"
    /\ last.reads = 1 /\ last.decodes = 2
    /\ last.raw = sent[2]

\* C3, as stated: after every recv of an SSLStreamSocket that returns a
\* packet, whatever was decoded, _buf holds what was decoded less the bytes of
\* the packet returned.
C3_NoReturnedBytes ==
    (cls = "SSLStreamSocket" /\ last.op = "recv" /\ last.err = "none")
    => last.raw = PktBytes(last.ret) \o buf

\* C3, amended: that holds unless the whole packet decoded is a padding layer
\* with no underlayer; then the packet returned holds every byte decoded and
\* _buf keeps them all.
C3_UnlessRootPadding ==
    (cls = "SSLStreamSocket" /\ last.op = "recv" /\ last.err = "none")
    => IF last.ret[1].name = "Padding"
       THEN PktBytes(last.ret) = last.raw /\ buf = last.raw
       ELSE last.raw = PktBytes(last.ret) \o buf

\* A frame was returned and the bytes after it stayed in _buf.
C3_Witness ==
    /\ cls = "SSLStreamSocket" /\ basecls = "Frame"
    /\ last.op = "recv" /\ last.err = "none"
    /\ buf # <<>> /\ last.raw = PktBytes(last.ret) \o buf

\* C4, as stated: every recv of a StreamSocket that returns a packet moves the
\* channel on by the length of that packet, whatever was decoded.
C4_OneFrame ==
    [][(cls = "StreamSocket" /\ Returned)
          => avail' = Drop(avail, PktLen(last'.ret))]_vars

\* C4, amended: it does unless the whole packet decoded is a padding layer;
\* then the packet returned holds every byte peeked and the channel does not
\* move.
C4_UnlessRootPadding ==
    [][(cls = "StreamSocket" /\ Returned)
          => IF last'.ret[1].name = "Padding"
             THEN avail' = avail /\ PktBytes(last'.ret) = Take(avail, last'.peeked)
             ELSE avail' = Drop(avail, PktLen(last'.ret))]_vars

\* A frame was returned from a peek that held more than that frame, and the
\* channel moved by the frame.
C4_Witness ==
    /\ cls = "StreamSocket" /\ basecls = "Frame"
    /\ last.op = "recv" /\ last.err = "none"
    /\ last.consumed = PktLen(last.ret) /\ last.consumed < last.peeked
    /\ avail # <<>>

\* C5: a recv of a StreamSocket or an SSLStreamSocket that returns a packet
\* takes L - P bytes off the channel, or off the front of _buf, L being the
\* bytes decoded and P the trailing padding among them: P = 0, 0 < P < L and
\* P = L alike.
C5_PaddingLaw ==
    [][(cls \in {"StreamSocket", "SSLStreamSocket"} /\ Returned)
          => LET L == Len(last'.raw)
                 P == TrailingPad(basecls, last'.raw)
             IN  IF cls = "StreamSocket"
                 THEN last'.raw = Take(avail, L) /\ avail' = Drop(avail, L - P)
                 ELSE buf' = Drop(last'.raw, L - P)]_vars

\* The whole of a non-empty _buf was padding: nothing was taken off it.
C5_Witness ==
    /\ cls = "SSLStreamSocket" /\ basecls = "Padding"
    /\ last.op = "recv" /\ last.err = "none"
    /\ last.peeked > 0 /\ last.consumed = 0 /\ buf = last.raw

\* How often channel c was closed.
Closes(c) == Cardinality({k \in 1..Len(closeLog) : closeLog[k] = c})

\* C6: on a handle whose construction completed, over any calls of close(),
\* no channel is closed twice and no close() raises; one socket that is both
\* ins and outs is closed once; of two channels, outs is closed before ins.
C6_CloseOnce ==
    (ins # Unset /\ outs # Unset)
    => /\ \A c \in Chans : Closes(c) <= 1
       /\ last.op = "close" => last.err = "none"
       /\ (closed = 1 /\ ins = outs) => closeLog = <<ins>>
       /\ (closed = 1 /\ ins # outs /\ outs # None) => closeLog = <<outs, ins>>
       /\ (closed = 1 /\ outs = None) => closeLog = <<ins>>

\* An L3RawSocket was closed: first outs, then ins.
C6_Witness ==
    /\ cls = "L3RawSocket" /\ closed = 1 /\ last.op = "close"
    /\ closeLog = <<outs, ins>> /\ ~live[1] /\ ~live[2]

\* C7: close() never raises and leaves no channel open, also on a handle
\* whose construction failed part of the way.
C7_PartialClose ==
    /\ last.op = "close" => last.err = "none"
    /\ closed = 1 => \A c \in Chans : ~live[c]

\* C8: once closed, a handle stays closed, and every send or recv made after
\* that ends in an error.
C8_ClosedIsFinal ==
    [][closed = 1
          => /\ closed' = 1
             /\ last'.op \in {"recv", "send"} => last'.err # "none"]_vars

\* C9: when L3RawSocket.recv reads a record of packet type PACKET_OUTGOING,
\* whatever its other codes, it returns None without an error, having taken
\* that one record, decoded nothing and warned of nothing.
C9_OutgoingNone ==
    [][(cls = "L3RawSocket" /\ cap # <<>> /\ cap' = Tail(cap)
           /\ Head(cap).pkttype = PACKET_OUTGOING)
          => /\ last'.op = "recv" /\ last'.err = "none"
             /\ last'.none /\ last'.ret = <<>>
             /\ last'.decodes = 0 /\ last'.warnings = 0 /\ last'.logged = 0
             /\ last'.consumed = 1]_vars

\* A recv returned None and took one record.
C9_Witness ==
    /\ cls = "L3RawSocket" /\ last.op = "recv" /\ last.err = "none"
    /\ last.none /\ last.consumed = 1 /\ last.decodes = 0

\* C10: when L3RawSocket.recv reads a record that is not outgoing: with
\* sa_ll[3] in conf.l2types that class decodes it, whatever sa_ll[1] is, no
\* warning is emitted and a packet decoded is returned without its link
\* header; else with sa_ll[1] in conf.l3types that class decodes it, no
\* warning is emitted and a packet decoded is returned whole; else
\* conf.default_l2 decodes it and one warning is emitted.
C10_Dispatch ==
    [][(cls = "L3RawSocket" /\ cap # <<>> /\ cap' = Tail(cap)
           /\ Head(cap).pkttype # PACKET_OUTGOING)
          => LET r == Head(cap)
                 o == last'
                 inL2 == r.hatype \in DOMAIN L2Types
                 inL3 == r.proto \in DOMAIN L3Types
                 decoded == o.err = "none" /\ ~o.degraded
             IN  /\ inL2 => /\ o.decoder = L2Types[r.hatype]
                            /\ o.warnings = 0
                            /\ decoded => /\ PktLen(o.ret) = Len(o.raw) - HdrLen
                                          /\ PktBytes(o.ret) = Drop(o.raw, HdrLen)
                 /\ (~inL2 /\ inL3) => /\ o.decoder = L3Types[r.proto]
                                       /\ o.warnings = 0
                                       /\ decoded => /\ PktBytes(o.ret) = o.raw
                                                     /\ o.ret[1].name = o.decoder
                 /\ (~inL2 /\ ~inL3) => /\ o.decoder = DefaultL2
                                        /\ o.warnings = 1]_vars

\* A record with both codes registered was decoded by the link-layer class
\* and returned without its header.
C10_Witness ==
    /\ cls = "L3RawSocket" /\ last.op = "recv" /\ last.err = "none"
    /\ last.decoder = "Ether" /\ ~last.degraded /\ last.warnings = 0
    /\ Len(last.raw) > HdrLen /\ PktLen(last.ret) = Len(last.raw) - HdrLen

\* A step in which L3RawSocket.recv read a record that is not outgoing.
L3Read ==
    /\ cls = "L3RawSocket" /\ cap # <<>> /\ cap' = Tail(cap)
    /\ Head(cap).pkttype # PACKET_OUTGOING

\* C11: when the decoder L3RawSocket.recv chose fails on the bytes read, and
\* not by an interrupt: with conf.debug_dissector the failure reaches the
\* caller; without it recv returns, raising nothing, one raw layer holding
\* the bytes read, whichever way the decoder was chosen.
C11_Degrade ==
    [][(L3Read /\ last'.err # "KeyboardInterrupt"
           /\ ~Decode(last'.decoder, last'.raw).ok)
          => IF debug
             THEN last'.err = "DecodeError"
             ELSE /\ last'.err = "none" /\ ~last'.none
                  /\ last'.ret = <<Layer("Raw", last'.raw)>>]_vars

\* C16: when neither code of a record is registered, L3RawSocket.recv decodes
\* it with conf.default_l2 and returns the packet decoded without its link
\* header, as it does for a class of conf.l2types.
C16_DefaultUnwrapped ==
    [][(L3Read /\ Head(cap).hatype \notin DOMAIN L2Types
           /\ Head(cap).proto \notin DOMAIN L3Types
           /\ last'.err = "none" /\ ~last'.degraded)
          => /\ last'.decoder = DefaultL2
             /\ PktBytes(last'.ret) = Drop(last'.raw, HdrLen)]_vars

\* C12: an interrupt raised while recv is reading or decoding reaches the
\* caller: in L3RawSocket.recv with and without conf.debug_dissector, and in
\* SSLStreamSocket.recv during the first decode of the buffered bytes.
C12_InterruptPropagates ==
    (last.op = "recv" /\ last.interrupted) => last.err = "KeyboardInterrupt"

\* A step of SSLStreamSocket.recv: the only step of an SSLStreamSocket that is
\* neither an arrival, nor the peer's close, nor close().
SSLStep ==
    /\ cls = "SSLStreamSocket"
    /\ <<wire, eof, closed, live>>' = <<wire, eof, closed, live>>

\* C13: a read of no bytes makes recv raise the peer-closed socket.error.
\* StreamSocket.recv whose peek is empty decodes nothing and reads nothing
\* off the socket; SSLStreamSocket.recv whose read is empty leaves _buf as it
\* was.
C13_ZeroRead ==
    [][/\ (cls = "StreamSocket" /\ nrecv' = nrecv + 1 /\ Live(ins)
              /\ avail = <<>>)
          => /\ last'.err = "ConnectionClosed"
             /\ last'.decodes = 0 /\ last'.reads = 0
             /\ avail' = avail /\ got' = got
       /\ (SSLStep /\ last'.reads = 1 /\ avail = <<>>)
          => /\ last'.err = "ConnectionClosed"
             /\ buf' = buf /\ taken' = taken /\ got' = got]_vars

\* Both cases: a StreamSocket at end of stream, and an SSLStreamSocket at end
\* of stream holding bytes it could not decode.
C13_Witness ==
    /\ last.op = "recv" /\ last.err = "ConnectionClosed"
    /\ eof /\ avail = <<>>
    /\ \/ cls = "StreamSocket" /\ nrecv > 0
       \/ cls = "SSLStreamSocket" /\ buf # <<>> /\ last.decodes = 1

\* C14: L3RawSocket.send serializes, then stamps x.sent_time, then writes.
\* When the write raises socket.error the error is logged and send returns
\* without raising: the packet keeps its timestamp and the handle stays open.
\* When serialization fails nothing is stamped and nothing is written.
C14_SendOrder ==
    [][(cls = "L3RawSocket" /\ last'.op = "send")
          => LET ser == last'.args[1]
                 hasDst == last'.args[2]
                 wr == last'.args[3]
             IN  /\ ~ser => /\ last'.err # "none" /\ last'.logged = 0
                            /\ ~last'.stamped /\ ~last'.wrote
                            /\ nout' = nout
                 /\ (ser /\ hasDst /\ outs # Unset
                         /\ (~wr \/ ~Live(outs)))
                    => /\ last'.err = "none" /\ last'.none
                       /\ last'.logged = 1
                       /\ last'.stamped /\ ~last'.wrote
                       /\ nout' = nout
                       /\ closed' = closed /\ live' = live
                 /\ last'.wrote => last'.stamped /\ ser]_vars

\* A write that failed on an open handle: logged, stamped, nothing raised.
C14_Witness ==
    /\ cls = "L3RawSocket" /\ last.op = "send" /\ closed = 0
    /\ last.args = <<TRUE, TRUE, FALSE>>
    /\ last.err = "none" /\ last.logged = 1 /\ last.stamped /\ ~last.wrote

\* C15: StreamSocket.recv reads bytes off the socket only after the decode
\* of the peeked bytes succeeded.  When the decoder fails recv raises and the
\* socket's read position is where it was: the next call peeks the same bytes.
C15_DecodeBeforeRead ==
    [][(cls = "StreamSocket" /\ nrecv' = nrecv + 1)
          => /\ last'.reads = 1
                => /\ last'.err = "none" /\ last'.decodes = 1
                   /\ Decode(basecls, last'.raw).ok
             /\ (last'.raw # <<>> /\ ~Decode(basecls, last'.raw).ok)
                => /\ last'.err = "DecodeError" /\ last'.reads = 0
                   /\ avail' = avail /\ got' = got]_vars

\* A decode that failed, with the bytes it peeked still first on the socket.
C15_Witness ==
    /\ cls = "StreamSocket" /\ last.op = "recv" /\ last.err = "DecodeError"
    /\ last.raw # <<>> /\ last.raw = Take(avail, last.peeked)

\* C17: SSLStreamSocket.recv reads the socket at most once per call: not at
\* all when _buf is not empty and decodes, once when _buf is empty or its
\* first decode fails.  A failure of the first decode is never raised; a
\* decode failure reaching the caller is that of the decode after the read.
C17_OneRead ==
    [][SSLStep
          => /\ last'.reads <= 1
             /\ (buf # <<>> /\ Decode(basecls, buf).ok /\ ~last'.interrupted)
                => /\ last'.reads = 0 /\ avail' = avail
                   /\ last'.err = "none"
             /\ ((buf = <<>> \/ ~Decode(basecls, buf).ok) /\ Live(ins)
                    /\ ~last'.interrupted)
                => /\ last'.reads = 1
                   /\ \E n \in 0..Len(avail) : avail' = Drop(avail, n)
             /\ last'.err = "DecodeError"
                => /\ last'.reads = 1
                   /\ Len(last'.raw) > Len(buf)
                   /\ ~Decode(basecls, last'.raw).ok]_vars

\* The first decode failed without a word, one read followed, and the decode
\* after it failed too: that failure is the one raised.
C17_Witness ==
    /\ cls = "SSLStreamSocket" /\ last.op = "recv"
    /\ last.err = "DecodeError" /\ last.decodes = 2 /\ last.reads = 1

\* C18: while the decoder keeps failing on the buffered bytes, every call of
\* SSLStreamSocket.recv appends what it read to _buf and removes nothing:
\* _buf grows past the size asked for, no bound is enforced and the only
\* error raised is the decoder's.
C18_BufferGrows ==
    [][(SSLStep /\ last'.op = "recv" /\ last'.reads = 1
           /\ ~Decode(basecls, last'.raw).ok /\ ~last'.interrupted
           /\ avail # <<>>)
          => /\ last'.err = "DecodeError"
             /\ \E n \in 1..Len(avail) :
                   /\ buf' = buf \o Take(avail, n)
                   /\ avail' = Drop(avail, n)
             /\ taken' = taken /\ got' = got]_vars

\* Two failures in a row have left in _buf more bytes than recv was asked for.
C18_Witness ==
    /\ cls = "SSLStreamSocket" /\ last.op = "recv"
    /\ last.err = "DecodeError" /\ last.decodes = 2
    /\ last.raw = buf /\ Len(buf) > SmallX

\* C19: the bytes SSLStreamSocket.recv has removed from the front of _buf so
\* far, followed by _buf, are the bytes read from the socket so far, in order.
C19_Conservation ==
    cls = "SSLStreamSocket"
       => taken \o buf
             = Take(Flatten(sent),
                    Len(Flatten(sent)) - Len(wire) - Len(avail))

\* Bytes were removed for a returned packet while others stay buffered.
C19_Witness ==
    /\ cls = "SSLStreamSocket" /\ got # <<>>
    /\ taken # <<>> /\ buf # <<>>

\* C20: the filter L2ListenTcpdump.__init__ hands to tcpdump.  With filtering
\* on and conf.except_filter E set: the caller's filter F becomes
\* "(F) and not (E)", and no filter becomes "not (E)".  With E unset or
\* nofilter: F is handed over as it is, and no filter argument when F is None.
C20_Filter ==
    (cls = "L2ListenTcpdump" /\ last.op = "init")
       => LET c == last.args[1]
              F == c.filter
              E == c.except_filter
              options == {"-w", "-", "-s", "65535", "-i", "-p", c.iface}
              rest == SelectSeq(argv, LAMBDA a : a[1] \notin options)
              excluding == ~c.nofilter /\ E \notin {Absent, ""}
          IN  /\ (excluding /\ F \notin {Absent, ""})
                 => rest = << <<"(", F, ") and not (", E, ")">> >>
              /\ (excluding /\ F \in {Absent, ""})
                 => rest = << <<"not (", E, ")">> >>
              /\ (~excluding /\ F # Absent) => rest = << <<F>> >>
              /\ (~excluding /\ F = Absent) => rest = << >>

\* Both filters given and filtering on: the last argument is the conjunction.
C20_Witness ==
    /\ cls = "L2ListenTcpdump" /\ last.op = "init" /\ last.err = "none"
    /\ last.args[1].filter = "F" /\ last.args[1].except_filter = "E"
    /\ ~last.args[1].nofilter
    /\ argv[Len(argv)] = <<"(", "F", ") and not (", "E", ")">>

====
